---------------------------- MODULE Spec2Model ----------------------------
(***************************************************************************)
(* Model of the geodesic_destination crate (src/src/lib.rs): the spherical *)
(* direct geodesic solver `destination_with_radius`, its wrapper           *)
(* `destination`, the private helpers `clamp` and `wrap_pi`, and the       *)
(* test_utils helpers `distance_m`, `azimuth_deg`, `angle_diff_deg` and    *)
(* `wrap_360`.                                                             *)
(*                                                                         *)
(* f64 values are modelled by two sorts of exact numbers.                  *)
(*                                                                         *)
(*  - "Linear" numbers (angles in radians, bearings in degrees, lengths)   *)
(*    are records [k, n].  A finite radian angle is n units of pi/HalfTurn *)
(*    (15 degrees), so the constant PI is exactly HalfTurn units; a finite *)
(*    degree value is n degrees; a finite length is n units of             *)
(*    (pi/HalfTurn) metres, so that length / radius is an angle.           *)
(*  - "Trig" numbers (values of sin and cos and their sums and products)   *)
(*    are records [k, c, e] standing for the exact real                    *)
(*       (c[1] + c[2]*sqrt2 + c[3]*sqrt3 + c[4]*sqrt6) / 2^e,              *)
(*    the field in which the sines of all multiples of 15 degrees live.    *)
(*                                                                         *)
(* Besides "fin" both sorts carry the IEEE special values "nan" and "inf"  *)
(* (n = sign), and the kind "tiny" (n or c[1] = sign): a nonzero f64 so    *)
(* small that adding it to any nonzero grid value rounds back to that      *)
(* value (1e-20, say).  "tiny" is how round-to-nearest shows in the model: *)
(* x + tiny = x for x # 0, sin(tiny) = tiny, cos(tiny) = 1.                *)
(* The kind "off" marks a result that is a real number outside the grid    *)
(* (asin(1/3), say); the actions only take inputs whose results are on the *)
(* grid.  Signed zeros are not distinguished.                              *)
(***************************************************************************)
EXTENDS Integers, Sequences, FiniteSets, TLC

VARIABLES op, args, ret

vars == <<op, args, ret>>

(***************************************************************************)
(* Constants of the program.                                               *)
(***************************************************************************)
\* std::f64::consts::PI in grid units (one unit is 15 degrees).
HalfTurn == 12

\* EARTH_RADIUS_M, in metres.
EARTH_RADIUS_M == 6371000

FullTurn == 2 * HalfTurn

QuarterTurn == HalfTurn \div 2

\* f64::to_degrees of one grid unit.
DegPerUnit == 180 \div HalfTurn

(***************************************************************************)
(* Linear numbers.                                                         *)
(***************************************************************************)
Fin(n) == [k |-> "fin", n |-> n]

NaN == [k |-> "nan", n |-> 0]

Inf(s) == [k |-> "inf", n |-> s]

Tiny(s) == [k |-> "tiny", n |-> s]

Off == [k |-> "off", n |-> 0]

PI == Fin(HalfTurn)

SignOf(i) == IF i > 0 THEN 1 ELSE IF i < 0 THEN -1 ELSE 0

AbsInt(i) == IF i < 0 THEN -i ELSE i

\* The sign of a linear number that is not nan or off.
LSign(x) == IF x.k = "fin" THEN SignOf(x.n) ELSE x.n

IsFinite(x) == x.k \in {"fin", "tiny"}

\* f64 negation.
LNeg(x) ==
    IF x.k \in {"nan", "off"} THEN x ELSE [k |-> x.k, n |-> -x.n]

\* f64 addition: IEEE special values, and a tiny operand is rounded away
\* next to a nonzero one.
LAdd(x, y) ==
    IF x.k = "off" \/ y.k = "off" THEN Off
    ELSE IF x.k = "nan" \/ y.k = "nan" THEN NaN
    ELSE IF x.k = "inf" /\ y.k = "inf" THEN (IF x.n = y.n THEN x ELSE NaN)
    ELSE IF x.k = "inf" THEN x
    ELSE IF y.k = "inf" THEN y
    ELSE IF x.k = "fin" /\ y.k = "fin" THEN Fin(x.n + y.n)
    ELSE IF x.k = "fin" THEN (IF x.n = 0 THEN y ELSE x)
    ELSE IF y.k = "fin" THEN (IF y.n = 0 THEN x ELSE y)
    ELSE IF x.n = y.n THEN x ELSE Off

LSub(x, y) == LAdd(x, LNeg(y))

\* x < y on f64: false when either is nan.
LLess(x, y) ==
    IF x.k \in {"nan", "off"} \/ y.k \in {"nan", "off"} THEN FALSE
    ELSE IF x.k = "inf" THEN x.n = -1 /\ ~(y.k = "inf" /\ y.n = -1)
    ELSE IF y.k = "inf" THEN y.n = 1
    ELSE IF x.k = "fin" /\ y.k = "fin" THEN x.n < y.n
    ELSE IF x.k = "fin" THEN (x.n < 0 \/ (x.n = 0 /\ y.n = 1))
    ELSE IF y.k = "fin" THEN (y.n > 0 \/ (y.n = 0 /\ x.n = -1))
    ELSE x.n < y.n

\* x == y on f64 for a finite grid value y.
LEq(x, y) == x.k = "fin" /\ y.k = "fin" /\ x.n = y.n

\* f64::abs.
LAbs(x) ==
    IF x.k \in {"nan", "off"} THEN x ELSE [k |-> x.k, n |-> AbsInt(x.n)]

\* The remainder of integer division that truncates toward zero: the
\* result has the sign of the dividend.
TruncRem(a, m) == IF a >= 0 THEN a % m ELSE -((-a) % m)

\* The f64 `%` operator with a positive finite divisor of m units.
LRem(x, m) ==
    IF x.k = "off" THEN Off
    ELSE IF x.k \in {"nan", "inf"} THEN NaN
    ELSE IF x.k = "tiny" THEN x
    ELSE Fin(TruncRem(x.n, m))

\* f64 multiplication by a positive finite constant c whose product with
\* one grid unit is again a whole number of units.
LScale(x, c) ==
    IF x.k = "fin" THEN Fin(x.n * c) ELSE x

\* f64 multiplication by 0.5.
LHalf(x) ==
    IF x.k # "fin" THEN x
    ELSE IF x.n % 2 = 0 THEN Fin(x.n \div 2) ELSE Off

\* A variant of LDiv that leaves the length undivided by the radius.
LDivUndivided(x, r) ==
    IF r > 0 THEN x ELSE Off

\* f64 division of a length by a positive radius of r metres.
LDiv(x, r) ==
    IF x.k # "fin" THEN x
    ELSE IF AbsInt(x.n) % r = 0 THEN Fin(SignOf(x.n) * (AbsInt(x.n) \div r))
    ELSE Off

(***************************************************************************)
(* Trig numbers: exact arithmetic in Q(sqrt2, sqrt3).                      *)
(***************************************************************************)
RECURSIVE Norm(_, _)
\* The record of (c[1] + c[2]*sqrt2 + c[3]*sqrt3 + c[4]*sqrt6) / 2^e in
\* lowest terms.
Norm(c, e) ==
    IF e > 0 /\ \A i \in 1..4 : c[i] % 2 = 0
    THEN Norm([i \in 1..4 |-> c[i] \div 2], e - 1)
    ELSE [k |-> "fin", c |-> c, e |-> e]

VInt(i) == Norm(<<i, 0, 0, 0>>, 0)

VNaN == [k |-> "nan", c |-> <<0, 0, 0, 0>>, e |-> 0]

VTiny(s) == [k |-> "tiny", c |-> <<s, 0, 0, 0>>, e |-> 0]

VOff == [k |-> "off", c |-> <<0, 0, 0, 0>>, e |-> 0]

Pow2(n) == 2^n

\* The sign of p + q*sqrt3.
Sign3(p, q) ==
    IF SignOf(q) = 0 THEN SignOf(p)
    ELSE IF SignOf(p) = 0 \/ SignOf(p) = SignOf(q) THEN SignOf(q)
    ELSE SignOf(p) * SignOf(p * p - 3 * q * q)

\* The sign of c[1] + c[2]*sqrt2 + c[3]*sqrt3 + c[4]*sqrt6, as the sign of
\* A + B*sqrt2 with A = c[1] + c[3]*sqrt3 and B = c[2] + c[4]*sqrt3.
Sign4(c) ==
    LET sA == Sign3(c[1], c[3])
        sB == Sign3(c[2], c[4])
    IN  IF sB = 0 THEN sA
        ELSE IF sA = 0 \/ sA = sB THEN sB
        ELSE sA * Sign3(c[1] * c[1] + 3 * c[3] * c[3]
                          - 2 * c[2] * c[2] - 6 * c[4] * c[4],
                        2 * c[1] * c[3] - 4 * c[2] * c[4])

\* The sign of a trig number that is not nan or off.
VSign(x) == IF x.k = "fin" THEN Sign4(x.c) ELSE x.c[1]

VIsZero(x) == x.k = "fin" /\ x.c = <<0, 0, 0, 0>>

\* f64 negation.
VNeg(x) ==
    IF x.k \in {"nan", "off"} THEN x
    ELSE [k |-> x.k, c |-> [i \in 1..4 |-> -x.c[i]], e |-> x.e]

\* f64 addition.
VAdd(x, y) ==
    IF x.k = "off" \/ y.k = "off" THEN VOff
    ELSE IF x.k = "nan" \/ y.k = "nan" THEN VNaN
    ELSE IF x.k = "fin" /\ y.k = "fin" THEN
        LET e == IF x.e > y.e THEN x.e ELSE y.e
        IN  Norm([i \in 1..4 |->
                    x.c[i] * Pow2(e - x.e) + y.c[i] * Pow2(e - y.e)], e)
    ELSE IF x.k = "fin" THEN (IF VIsZero(x) THEN y ELSE x)
    ELSE IF y.k = "fin" THEN (IF VIsZero(y) THEN x ELSE y)
    ELSE IF x.c[1] = y.c[1] THEN x ELSE VOff

VSub(x, y) == VAdd(x, VNeg(y))

\* f64 multiplication.
VMul(x, y) ==
    IF x.k = "off" \/ y.k = "off" THEN VOff
    ELSE IF x.k = "nan" \/ y.k = "nan" THEN VNaN
    ELSE IF x.k = "fin" /\ y.k = "fin" THEN
        LET a == x.c
            b == y.c
        IN  Norm(<< a[1]*b[1] + 2*a[2]*b[2] + 3*a[3]*b[3] + 6*a[4]*b[4],
                    a[1]*b[2] + a[2]*b[1] + 3*(a[3]*b[4] + a[4]*b[3]),
                    a[1]*b[3] + a[3]*b[1] + 2*(a[2]*b[4] + a[4]*b[2]),
                    a[1]*b[4] + a[4]*b[1] + a[2]*b[3] + a[3]*b[2] >>,
                 x.e + y.e)
    ELSE IF VSign(x) * VSign(y) = 0 THEN VInt(0)
    ELSE VTiny(VSign(x) * VSign(y))

\* x < y on f64: false when either is nan.
VLess(x, y) ==
    LET d == VSub(x, y)
    IN  IF x.k \in {"nan", "off"} \/ y.k \in {"nan", "off"} THEN FALSE
        ELSE IF d.k = "off" THEN FALSE
        ELSE VSign(d) < 0

\* f64::max: when one operand is nan the other is returned.
VMax(x, y) ==
    IF x.k = "off" \/ y.k = "off" THEN VOff
    ELSE IF x.k = "nan" THEN y
    ELSE IF y.k = "nan" THEN x
    ELSE IF VLess(x, y) THEN y ELSE x

\* f64::min: when one operand is nan the other is returned.
VMin(x, y) ==
    IF x.k = "off" \/ y.k = "off" THEN VOff
    ELSE IF x.k = "nan" THEN y
    ELSE IF y.k = "nan" THEN x
    ELSE IF VLess(y, x) THEN y ELSE x

\* sin of n grid units, 0 <= n <= QuarterTurn.
SinTab(n) ==
    CASE n = 0 -> VInt(0)
      [] n = 1 -> Norm(<<0, -1, 0, 1>>, 2)
      [] n = 2 -> Norm(<<1, 0, 0, 0>>, 1)
      [] n = 3 -> Norm(<<0, 1, 0, 0>>, 1)
      [] n = 4 -> Norm(<<0, 0, 1, 0>>, 1)
      [] n = 5 -> Norm(<<0, 1, 0, 1>>, 2)
      [] n = 6 -> VInt(1)

\* sin of m grid units, 0 <= m < FullTurn.
SinTurn(m) ==
    IF m <= QuarterTurn THEN SinTab(m)
    ELSE IF m <= HalfTurn THEN SinTab(HalfTurn - m)
    ELSE IF m <= HalfTurn + QuarterTurn THEN VNeg(SinTab(m - HalfTurn))
    ELSE VNeg(SinTab(FullTurn - m))

\* The sines of one turn of the grid, and their signs.
SinTable == [m \in 0..(FullTurn - 1) |-> SinTurn(m)]

SinSign == [m \in 0..(FullTurn - 1) |-> VSign(SinTable[m])]

\* sin and cos of any whole number of grid units.
SinGrid(n) == SinTable[n % FullTurn]

CosGrid(n) == SinTable[(n + QuarterTurn) % FullTurn]

\* f64::sin.
Sin(x) ==
    IF x.k = "off" THEN VOff
    ELSE IF x.k \in {"nan", "inf"} THEN VNaN
    ELSE IF x.k = "tiny" THEN VTiny(x.n)
    ELSE SinGrid(x.n)

\* f64::cos.
Cos(x) ==
    IF x.k = "off" THEN VOff
    ELSE IF x.k \in {"nan", "inf"} THEN VNaN
    ELSE IF x.k = "tiny" THEN VInt(1)
    ELSE CosGrid(x.n)

\* f64::asin.
Asin(v) ==
    IF v.k = "off" THEN Off
    ELSE IF v.k = "nan" THEN NaN
    ELSE IF v.k = "tiny" THEN Tiny(v.c[1])
    ELSE IF VLess(VInt(1), v) \/ VLess(v, VInt(-1)) THEN NaN
    ELSE IF \E n \in -QuarterTurn..QuarterTurn : SinGrid(n) = v
         THEN Fin(CHOOSE n \in -QuarterTurn..QuarterTurn : SinGrid(n) = v)
         ELSE Off

\* The grid angle n in (-pi, pi] whose direction is that of (x, y).
OnRay(n, y, x) ==
    /\ SinSign[n % FullTurn] = VSign(y)
    /\ SinSign[(n + QuarterTurn) % FullTurn] = VSign(x)
    /\ VMul(x, SinGrid(n)) = VMul(y, CosGrid(n))

\* f64::atan2, called as y.atan2(x).
Atan2(y, x) ==
    IF y.k = "off" \/ x.k = "off" THEN Off
    ELSE IF y.k = "nan" \/ x.k = "nan" THEN NaN
    ELSE IF y.k = "fin" /\ x.k = "fin" THEN
        IF VIsZero(y) /\ VIsZero(x) THEN Fin(0)
        ELSE IF \E n \in (1 - HalfTurn)..HalfTurn : OnRay(n, y, x)
             THEN Fin(CHOOSE n \in (1 - HalfTurn)..HalfTurn : OnRay(n, y, x))
             ELSE Off
    ELSE IF y.k = "tiny" /\ x.k = "fin" THEN
        IF VSign(x) > 0 THEN Tiny(y.c[1])
        ELSE IF VSign(x) < 0 THEN Fin(y.c[1] * HalfTurn)
        ELSE Fin(y.c[1] * QuarterTurn)
    ELSE IF y.k = "fin" /\ x.k = "tiny" THEN
        IF VSign(y) # 0 THEN Fin(VSign(y) * QuarterTurn)
        ELSE IF x.c[1] > 0 THEN Fin(0) ELSE Fin(HalfTurn)
    ELSE Off

\* f64::sqrt.
Sqrt(v) ==
    IF v.k = "off" THEN VOff
    ELSE IF v.k = "nan" THEN VNaN
    ELSE IF v.k = "tiny" THEN VOff
    ELSE IF VSign(v) < 0 THEN VNaN
    ELSE IF \E n \in 0..QuarterTurn : VMul(SinTab(n), SinTab(n)) = v
         THEN SinTab(CHOOSE n \in 0..QuarterTurn : VMul(SinTab(n), SinTab(n)) = v)
         ELSE VOff

(***************************************************************************)
(* The library (src/src/lib.rs).                                           *)
(***************************************************************************)
\* LatLon::new.
LatLon(lat, lon) == [lat |-> lat, lon |-> lon]

\* A call that returned v, and a call that ended in a panic.
Return(v) == [status |-> "ok", value |-> v]

Panic == [status |-> "panic", value |-> "radius_m must be positive"]

clamp(value, min, max) == VMin(VMax(value, min), max)

\* A variant of wrap_pi that also shifts a zero remainder up by a turn.
wrap_pi_zero_shifted(lon) ==
    LET rem == LRem(LAdd(lon, PI), FullTurn)
        wrapped == IF ~LLess(Fin(0), rem) THEN LAdd(rem, Fin(FullTurn)) ELSE rem
    IN  LSub(wrapped, PI)

\* A variant of wrap_pi without the correction of a negative remainder.
wrap_pi_uncorrected(lon) ==
    LET rem == LRem(LAdd(lon, PI), FullTurn)
    IN  LSub(rem, PI)

\* A variant of wrap_pi that leaves out the final subtraction of PI.
wrap_pi_unshifted(lon) ==
    LET rem == LRem(LAdd(lon, PI), FullTurn)
    IN  IF LLess(rem, Fin(0)) THEN LAdd(rem, Fin(FullTurn)) ELSE rem

wrap_pi(lon) ==
    LET rem == LRem(LAdd(lon, PI), FullTurn)
        wrapped == IF LLess(rem, Fin(0)) THEN LAdd(rem, Fin(FullTurn)) ELSE rem
    IN  LSub(wrapped, PI)

\* The displaced point of destination_with_radius (lib.rs 121-139), as used
\* by the variants below.
displaced(start, distance_m_, bearing_rad, radius_m) ==
    LET delta == LDiv(distance_m_, radius_m)
        sin_lat1 == Sin(start.lat)
        cos_lat1 == Cos(start.lat)
        sin_delta == Sin(delta)
        cos_delta == Cos(delta)
        sin_lat2 == VAdd(VMul(sin_lat1, cos_delta),
                         VMul(VMul(cos_lat1, sin_delta), Cos(bearing_rad)))
        lat2 == Asin(VMin(VMax(sin_lat2, VInt(-1)), VInt(1)))
        y == VMul(VMul(Sin(bearing_rad), sin_delta), cos_lat1)
        x == VSub(cos_delta, VMul(sin_lat1, Sin(lat2)))
        rem == LRem(LAdd(LAdd(start.lon, Atan2(y, x)), PI), FullTurn)
        wrapped == IF LLess(rem, Fin(0)) THEN LAdd(rem, Fin(FullTurn)) ELSE rem
    IN  LatLon(lat2, LSub(wrapped, PI))

\* A variant of destination_with_radius that takes the zero-distance
\* shortcut before it checks the radius.
destination_with_radius_shortcut_first(start, distance_m_, bearing_rad, radius_m) ==
    IF LEq(distance_m_, Fin(0)) THEN Return(start)
    ELSE IF ~(radius_m > 0) THEN Panic
    ELSE Return(displaced(start, distance_m_, bearing_rad, radius_m))

\* A variant of destination_with_radius without the zero-distance shortcut.
destination_with_radius_no_shortcut(start, distance_m_, bearing_rad, radius_m) ==
    IF ~(radius_m > 0) THEN Panic
    ELSE Return(displaced(start, distance_m_, bearing_rad, radius_m))

\* radius_m is a whole number of metres; distance_m and the angles are
\* linear numbers.
destination_with_radius(start, distance_m_, bearing_rad, radius_m) ==
    IF ~(radius_m > 0) THEN Panic
    ELSE IF LEq(distance_m_, Fin(0)) THEN Return(start)
    ELSE
        LET delta == LDiv(distance_m_, radius_m)
            sin_lat1 == Sin(start.lat)
            cos_lat1 == Cos(start.lat)
            sin_delta == Sin(delta)
            cos_delta == Cos(delta)
            sin_lat2 == VAdd(VMul(sin_lat1, cos_delta),
                             VMul(VMul(cos_lat1, sin_delta), Cos(bearing_rad)))
            lat2 == Asin(clamp(sin_lat2, VInt(-1), VInt(1)))
            y == VMul(VMul(Sin(bearing_rad), sin_delta), cos_lat1)
            x == VSub(cos_delta, VMul(sin_lat1, Sin(lat2)))
            lon2 == wrap_pi(LAdd(start.lon, Atan2(y, x)))
        IN  Return(LatLon(lat2, lon2))

destination(start, distance_m_, bearing_rad) ==
    destination_with_radius(start, distance_m_, bearing_rad, EARTH_RADIUS_M)

\* A variant of distance_m that leaves out the factor 2 of the central angle.
distance_m_undoubled(p, q) ==
    LET dlat == LSub(q.lat, p.lat)
        dlon == LSub(q.lon, p.lon)
        sin_dlat == Sin(LHalf(dlat))
        sin_dlon == Sin(LHalf(dlon))
        a0 == VAdd(VMul(sin_dlat, sin_dlat),
                   VMul(VMul(VMul(Cos(p.lat), Cos(q.lat)), sin_dlon), sin_dlon))
        a == VMin(VMax(a0, VInt(0)), VInt(1))
        c == Atan2(Sqrt(a), Sqrt(VSub(VInt(1), a)))
    IN  LScale(c, EARTH_RADIUS_M)

distance_m(p, q) ==
    LET dlat == LSub(q.lat, p.lat)
        dlon == LSub(q.lon, p.lon)
        sin_dlat == Sin(LHalf(dlat))
        sin_dlon == Sin(LHalf(dlon))
        a0 == VAdd(VMul(sin_dlat, sin_dlat),
                   VMul(VMul(VMul(Cos(p.lat), Cos(q.lat)), sin_dlon), sin_dlon))
        a == clamp(a0, VInt(0), VInt(1))
        c == LScale(Atan2(Sqrt(a), Sqrt(VSub(VInt(1), a))), 2)
    IN  LScale(c, EARTH_RADIUS_M)

wrap_360(deg) ==
    LET wrapped == LRem(deg, 360)
    IN  IF LLess(wrapped, Fin(0)) THEN LAdd(wrapped, Fin(360)) ELSE wrapped

azimuth_deg(p, s) ==
    LET dlon == LSub(s.lon, p.lon)
        y == VMul(Sin(dlon), Cos(s.lat))
        x == VSub(VMul(Cos(p.lat), Sin(s.lat)),
                  VMul(VMul(Sin(p.lat), Cos(s.lat)), Cos(dlon)))
    IN  IF VIsZero(x) /\ VIsZero(y) THEN Fin(0)
        ELSE LET bearing_rad == Atan2(y, x)
                 bearing_deg == LScale(bearing_rad, DegPerUnit)
             IN  wrap_360(bearing_deg)

\* A variant of angle_diff_deg without the branch for diff < -180.
angle_diff_deg_one_sided(a, b) ==
    LET diff0 == LRem(LSub(a, b), 360)
        diff == IF LLess(Fin(180), diff0) THEN LSub(diff0, Fin(360)) ELSE diff0
    IN  LAbs(diff)

angle_diff_deg(a, b) ==
    LET diff0 == LRem(LSub(a, b), 360)
        diff == IF LLess(diff0, Fin(-180)) THEN LAdd(diff0, Fin(360))
                ELSE IF LLess(Fin(180), diff0) THEN LSub(diff0, Fin(360))
                ELSE diff0
    IN  LAbs(diff)

(***************************************************************************)
(* Bounds of the model.                                                    *)
(***************************************************************************)
\* Latitudes of input points run over -MaxLat..MaxLat grid units; those
\* beyond a quarter turn are inputs that are not normalized.
MaxLat == 7

\* Distances run over -1..MaxArc grid units of arc on the sphere.
MaxArc == 7

\* Bearings run over -QuarterTurn..MaxBearing grid units.
MaxBearing == 12

\* Radii of destination_with_radius run over -1..MaxRadius metres.
MaxRadius == 2

\* Arguments of wrap_pi run over -MaxWrap..MaxWrap grid units.
MaxWrap == 40

\* Arguments of angle_diff_deg run over -MaxDeg..MaxDeg degrees.
MaxDeg == 400

Lats == {Fin(n) : n \in -MaxLat..MaxLat}

\* Longitudes of input points: zero, one unit inside the upper end of the
\* normalized range, and one unit outside its lower end.
Lons == {Fin(n) : n \in {-HalfTurn - 1, 0, HalfTurn - 1}}

Bearings == {Fin(n) : n \in -QuarterTurn..MaxBearing} \cup {NaN, Inf(1)}

Arcs == -1..MaxArc

Radii == -1..MaxRadius

\* The start points of the calls with radius r; the calls with a radius
\* that is not positive are drawn from fewer points and bearings.
Starts(r) ==
    IF r > 0 THEN {LatLon(lat, lon) : lat \in Lats, lon \in Lons}
    ELSE {LatLon(Fin(0), Fin(0)), LatLon(Fin(QuarterTurn + 1), Fin(-HalfTurn - 1))}

\* The bearings of the calls with radius r.
BearingsOf(r) == IF r > 0 THEN Bearings ELSE {Fin(0), Fin(QuarterTurn), NaN}

\* The distances, in metres, of the calls with radius r.
Distances(r) ==
    {Fin(a * (IF r > 0 THEN r ELSE 1)) : a \in Arcs} \cup {NaN, Inf(1), Inf(-1)}

\* The bearings, in degrees, that angle_diff_deg is compared against.
DegSamples == {Fin(1), Fin(-180)}

\* A value is representable when no part of it is off the grid.
OnGrid(x) == x.k # "off"

OnGridPoint(p) == OnGrid(p.lat) /\ OnGrid(p.lon)

(***************************************************************************)
(* The state: the last call made, its arguments and what it returned.      *)
(***************************************************************************)
Init ==
    /\ op = "none"
    /\ args = <<>>
    /\ ret = [status |-> "none", value |-> 0]

CallDestinationWithRadius ==
    /\ op = "none"
    /\ \E radius_m \in Radii :
         \E start \in Starts(radius_m), bearing_rad \in BearingsOf(radius_m),
            distance_m_ \in Distances(radius_m) :
           LET r == destination_with_radius(start, distance_m_, bearing_rad,
                                            radius_m)
           IN  /\ r.status = "ok" => OnGridPoint(r.value)
               /\ op' = "destination_with_radius"
               /\ args' = [start |-> start, distance_m |-> distance_m_,
                           bearing_rad |-> bearing_rad, radius_m |-> radius_m]
               /\ ret' = r

CallDestination ==
    /\ op = "none"
    /\ \E lat \in Lats, lon \in {Fin(0), Fin(HalfTurn - 1)}, arc \in 0..MaxArc,
          b \in 0..MaxBearing :
         LET start == LatLon(lat, lon)
             distance_m_ == Fin(arc * EARTH_RADIUS_M)
             r == destination(start, distance_m_, Fin(b))
         IN  /\ OnGridPoint(r.value)
             /\ op' = "destination"
             /\ args' = [start |-> start, distance_m |-> distance_m_,
                         bearing_rad |-> Fin(b), radius_m |-> EARTH_RADIUS_M]
             /\ ret' = r

\* The crate's doc examples: after dest = destination(start, d, b), the
\* distance and the azimuth from start to dest are computed.
RoundTrip ==
    /\ op = "destination"
    /\ LET dest == ret.value
           dist == distance_m(args.start, dest)
           az == azimuth_deg(args.start, dest)
       IN  /\ OnGrid(dist) /\ OnGrid(az)
           /\ op' = "round_trip"
           /\ args' = args
           /\ ret' = Return([dest |-> dest, distance |-> dist, azimuth |-> az])

CallWrapPi ==
    /\ op = "none"
    /\ \E lon \in {Fin(n) : n \in -MaxWrap..MaxWrap}
                 \cup {Tiny(1), Tiny(-1), NaN, Inf(1), Inf(-1)} :
         /\ op' = "wrap_pi"
         /\ args' = [lon |-> lon]
         /\ ret' = Return(wrap_pi(lon))

CallDistanceM ==
    /\ op = "none"
    /\ \E plat \in Lats, qlat \in Lats, plon \in {Fin(0), Fin(HalfTurn - 1)},
          qlon \in Lons :
         LET p == LatLon(plat, plon)
             q == LatLon(qlat, qlon)
             r == distance_m(p, q)
         IN  /\ OnGrid(r)
             /\ op' = "distance_m"
             /\ args' = [p |-> p, q |-> q]
             /\ ret' = Return(r)

CallAzimuthDeg ==
    /\ op = "none"
    /\ \E plat \in Lats, slat \in Lats, plon \in {Fin(0), Fin(HalfTurn - 1)},
          slon \in Lons \cup {Tiny(1), Tiny(-1)} :
         LET p == LatLon(plat, plon)
             s == LatLon(slat, slon)
             r == azimuth_deg(p, s)
         IN  /\ OnGrid(r)
             /\ op' = "azimuth_deg"
             /\ args' = [p |-> p, s |-> s]
             /\ ret' = Return(r)

CallAngleDiffDeg ==
    /\ op = "none"
    /\ \E a \in {Fin(n) : n \in -MaxDeg..MaxDeg}, b \in DegSamples :
         /\ op' = "angle_diff_deg"
         /\ args' = [a |-> a, b |-> b]
         /\ ret' = Return(angle_diff_deg(a, b))

Next ==
    \/ CallDestinationWithRadius
    \/ CallDestination
    \/ RoundTrip
    \/ CallWrapPi
    \/ CallDistanceM
    \/ CallAzimuthDeg
    \/ CallAngleDiffDeg

Spec == Init /\ [][Next]_vars

\* The calls of the direct solver and of its longitude normalization.
NextDest ==
    \/ CallWrapPi
    \/ CallDestination
    \/ CallDestinationWithRadius

SpecDest == Init /\ [][NextDest]_vars

\* The doc examples: a call of destination followed by the inverse problem.
NextTrip ==
    \/ CallDestination
    \/ RoundTrip

SpecTrip == Init /\ [][NextTrip]_vars

\* The calls of the helpers.
NextUtil ==
    \/ CallWrapPi
    \/ CallDistanceM
    \/ CallAzimuthDeg
    \/ CallAngleDiffDeg

SpecUtil == Init /\ [][NextUtil]_vars

(***************************************************************************)
(* Properties.                                                             *)
(***************************************************************************)

\* C1: every call of destination_with_radius with radius_m <= 0 ends in the
\* panic of the assertion and returns no coordinate, whatever the start, the
\* bearing and the distance; a zero distance does not return the start.
C1_NonPositiveRadiusPanics ==
    (op = "destination_with_radius" /\ args.radius_m <= 0) => ret = Panic

C1_Witness ==
    /\ op = "destination_with_radius"
    /\ args.radius_m <= 0
    /\ LEq(args.distance_m, Fin(0))
    /\ ret.status = "panic"

\* C2: with a radius > 0 and a distance of zero, destination_with_radius and
\* destination return the start itself, lat and lon unchanged, for every
\* bearing (nan and inf included) and whether or not the start is normalized.
C2_ZeroDistanceIdentity ==
    ( /\ op \in {"destination_with_radius", "destination"}
      /\ args.radius_m > 0
      /\ LEq(args.distance_m, Fin(0)) )
    => ret = Return(args.start)

C2_Witness ==
    /\ op = "destination_with_radius"
    /\ args.radius_m > 0
    /\ LEq(args.distance_m, Fin(0))
    /\ args.bearing_rad = NaN
    /\ args.start = LatLon(Fin(QuarterTurn + 1), Fin(-HalfTurn - 1))
    /\ ret = Return(args.start)

C5_WrapPreservesAngle ==
    /\ (op = "wrap_pi" /\ args.lon.k = "fin")
       => /\ ret.value.k = "fin"
          /\ (ret.value.n - args.lon.n) % FullTurn = 0
          /\ AbsInt(ret.value.n) <= HalfTurn
    /\ (op = "wrap_pi" /\ args.lon.k = "tiny") => ret.value = Fin(0)
    /\ ( /\ op = "destination_with_radius"
         /\ args.radius_m > 0
         /\ args.start.lat = Fin(0)
         /\ args.bearing_rad = Fin(QuarterTurn)
         /\ args.distance_m.k = "fin"
         /\ HalfTurn - args.start.lon.n > 0
         /\ HalfTurn - args.start.lon.n < args.distance_m.n \div args.radius_m
         /\ args.distance_m.n \div args.radius_m < HalfTurn )
       => ret = Return(LatLon(Fin(0),
                 Fin(args.distance_m.n \div args.radius_m
                     + args.start.lon.n - FullTurn)))

C5_Witness ==
    /\ op = "wrap_pi"
    /\ args.lon = Fin(-HalfTurn - 1)
    /\ ret.value = Fin(HalfTurn - 1)

\* C6: for every radius > 0, from (0, 0) the distance radius*pi/2 leads to
\* (0, pi/2) on the bearing pi/2 and to (pi/2, 0) on the bearing 0; and the
\* result of any call is that of the call with the distance divided by the
\* radius on the sphere of radius 1.
C6_QuarterTurnCardinalMoves ==
    (op = "destination_with_radius" /\ args.radius_m > 0)
    => /\ ( /\ args.start = LatLon(Fin(0), Fin(0))
            /\ args.distance_m = Fin(QuarterTurn * args.radius_m)
            /\ args.bearing_rad = Fin(QuarterTurn) )
          => ret = Return(LatLon(Fin(0), Fin(QuarterTurn)))
       /\ ( /\ args.start = LatLon(Fin(0), Fin(0))
            /\ args.distance_m = Fin(QuarterTurn * args.radius_m)
            /\ args.bearing_rad = Fin(0) )
          => ret = Return(LatLon(Fin(QuarterTurn), Fin(0)))
       /\ ret = destination_with_radius(args.start,
                    LDiv(args.distance_m, args.radius_m), args.bearing_rad, 1)

C6_Witness ==
    /\ op = "destination_with_radius"
    /\ args.radius_m > 1
    /\ args.start = LatLon(Fin(0), Fin(0))
    /\ args.distance_m = Fin(QuarterTurn * args.radius_m)
    /\ args.bearing_rad = Fin(QuarterTurn)
    /\ ret = Return(LatLon(Fin(0), Fin(QuarterTurn)))

\* C7 as stated: destination_with_radius with a radius > 0 and a nan or
\* infinite distance or bearing (the distance not zero) returns, and the
\* coordinate it returns has a lat and a lon that are not finite.
C7_NonFinitePropagates ==
    ( /\ op = "destination_with_radius"
      /\ args.radius_m > 0
      /\ ~LEq(args.distance_m, Fin(0))
      /\ (~IsFinite(args.distance_m) \/ ~IsFinite(args.bearing_rad)) )
    => /\ ret.status = "ok"
       /\ ~IsFinite(ret.value.lat)
       /\ ~IsFinite(ret.value.lon)

\* The call that C7 fails on: a nan distance returns the latitude -pi/2.
C7_Witness ==
    /\ op = "destination_with_radius"
    /\ args.radius_m > 0
    /\ args.start = LatLon(Fin(0), Fin(0))
    /\ args.distance_m = NaN
    /\ args.bearing_rad = Fin(0)
    /\ ret = Return(LatLon(Fin(-QuarterTurn), NaN))

\* C8: for a start that is not at a pole and a distance d with
\* 0 < d < half the circumference, after dest = destination(start, d, b)
\* distance_m(start, dest) is d and azimuth_deg(start, dest) is b up to
\* whole turns (the doc examples' angle_diff_deg of the two is zero).
C8_RoundTripRecovers ==
    ( /\ op = "round_trip"
      /\ LLess(Fin(-QuarterTurn), args.start.lat)
      /\ LLess(args.start.lat, Fin(QuarterTurn))
      /\ LLess(Fin(0), args.distance_m)
      /\ LLess(args.distance_m, Fin(HalfTurn * EARTH_RADIUS_M)) )
    => /\ ret.value.distance = args.distance_m
       /\ angle_diff_deg(ret.value.azimuth,
                         LScale(args.bearing_rad, DegPerUnit)) = Fin(0)

C8_Witness ==
    /\ op = "round_trip"
    /\ args.start = LatLon(Fin(0), Fin(HalfTurn - 1))
    /\ args.bearing_rad = Fin(QuarterTurn)
    /\ args.distance_m = Fin(2 * EARTH_RADIUS_M)
    /\ ret.value.dest = LatLon(Fin(0), Fin(1 - HalfTurn))
    /\ ret.value.distance = args.distance_m
    /\ ret.value.azimuth = Fin(QuarterTurn * DegPerUnit)

\* C9: for finite a and b of either sign and any magnitude,
\* angle_diff_deg(a, b) is min(r, 360 - r) with r = |a - b| reduced modulo
\* 360, lies in [0, 180], and is the same for (b, a).
C9_MinimalSeparation ==
    (op = "angle_diff_deg" /\ args.a.k = "fin" /\ args.b.k = "fin")
    => LET r == AbsInt(args.a.n - args.b.n) % 360
           m == IF r <= 360 - r THEN r ELSE 360 - r
       IN  /\ ret.value = Fin(m)
           /\ ~LLess(ret.value, Fin(0))
           /\ ~LLess(Fin(180), ret.value)
           /\ angle_diff_deg(args.b, args.a) = ret.value

C9_Witness ==
    /\ op = "angle_diff_deg"
    /\ args.a = Fin(359)
    /\ args.b = Fin(1)
    /\ ret.value = Fin(2)

\* C10 as stated: azimuth_deg returns a bearing in [0, 360), never 360, and
\* returns 0 when x and y are both zero (identical points).
C10_AzimuthBelowFullTurn ==
    op = "azimuth_deg"
    => /\ ~LLess(ret.value, Fin(0))
       /\ LLess(ret.value, Fin(360))
       /\ args.p = args.s => ret.value = Fin(0)

\* The call that C10 fails on: a longitude just west of p's gives 360.
C10_Witness ==
    /\ op = "azimuth_deg"
    /\ args.p = LatLon(Fin(0), Fin(0))
    /\ args.s = LatLon(Fin(2), Tiny(-1))
    /\ ret.value = Fin(360)

====
